---- MODULE Spec2Model ----
(***************************************************************************)
(* A model of zrender's SVG importer, src/tool/parseSVG.ts: parseXML, the  *)
(* document walker SVGParser (_parseNode, _parseText, the node and define  *)
(* parsers), the attribute/style resolver parseAttributes, the transform   *)
(* parser parseTransformAttribute, getPaint and makeViewBoxTransform.      *)
(*                                                                         *)
(* JavaScript strings are sequences of one-character strings, so that the  *)
(* code's indexing (value[0]), splitting and regular expressions are       *)
(* computed on characters.  JavaScript numbers are exact rationals n/d;    *)
(* NaN, undefined and null are values of their own.                        *)
(***************************************************************************)
EXTENDS Integers, Sequences, FiniteSets, TLC

VARIABLES
    xml,       \* the input of parseXML: [isDocument, chain], chain the sibling chain
    svgNode,   \* parseXML's cursor: an index into xml.chain, 0 when it is null
    pc,        \* where parse() stands
    nodes,     \* the scene nodes created so far (a node's id is its index)
    stack,     \* the open _parseNode calls, outermost first: [name, el]
    isDefine,  \* SVGParser._isDefine
    isText,    \* SVGParser._isText
    textX,     \* SVGParser._textX
    textY,     \* SVGParser._textY
    defs,      \* SVGParser._defs: id -> index into grads
    grads,     \* the linearGradient elements visited so far, and what was built
    ev,        \* the element or text run the last step visited, and what it resolved
    result,    \* what parse() returned
    arg,       \* the arguments of a function applied on its own
    ret        \* its result

vars == <<xml, svgNode, pc, nodes, stack, isDefine, isText, textX, textY,
          defs, grads, ev, result, arg, ret>>

-----------------------------------------------------------------------------
(* JavaScript values.  k is the kind; a number is n/d in lowest terms with *)
(* d > 0; a string is s; an object reference (a gradient) is n.            *)

Undefined == [k |-> "undefined", n |-> 0, d |-> 1, s |-> <<>>]
Null == [k |-> "null", n |-> 0, d |-> 1, s |-> <<>>]
NaN == [k |-> "nan", n |-> 0, d |-> 1, s |-> <<>>]
Infinite == [k |-> "inf", n |-> 0, d |-> 1, s |-> <<>>]
Num(i) == [k |-> "num", n |-> i, d |-> 1, s |-> <<>>]
Str(chars) == [k |-> "str", n |-> 0, d |-> 1, s |-> chars]
Obj(i) == [k |-> "obj", n |-> i, d |-> 1, s |-> <<>>]

Abs(i) == IF i < 0 THEN -i ELSE i

RECURSIVE Gcd(_, _)
Gcd(a, b) == IF b = 0 THEN a ELSE Gcd(b, a % b)

\* The number n/d (d # 0), in lowest terms.
Frac(n, d) ==
    LET g == Gcd(Abs(n), Abs(d))
        sg == IF d < 0 THEN -1 ELSE 1
    IN  [k |-> "num", n |-> sg * ((Abs(n) \div g) * (IF n < 0 THEN -1 ELSE 1)),
         d |-> Abs(d) \div g, s |-> <<>>]

IsNum(v) == v.k = "num"

\* Arithmetic on numbers; NaN when an operand is not a number.
NumAdd(a, b) ==
    IF IsNum(a) /\ IsNum(b) THEN Frac(a.n * b.d + b.n * a.d, a.d * b.d) ELSE NaN
NumNeg(a) == IF IsNum(a) THEN Frac(-a.n, a.d) ELSE NaN
NumSub(a, b) == NumAdd(a, NumNeg(b))
NumMul(a, b) ==
    IF IsNum(a) /\ IsNum(b) THEN Frac(a.n * b.n, a.d * b.d) ELSE NaN
NumDiv(a, b) ==
    IF ~(IsNum(a) /\ IsNum(b)) THEN NaN
    ELSE IF b.n = 0 THEN (IF a.n = 0 THEN NaN ELSE Infinite)
    ELSE Frac(a.n * b.d, a.d * b.n)
NumLess(a, b) == IsNum(a) /\ IsNum(b) /\ a.n * b.d < b.n * a.d
\* Math.min of two numbers.
MathMin(a, b) ==
    IF ~(IsNum(a) /\ IsNum(b)) THEN NaN ELSE IF NumLess(b, a) THEN b ELSE a
MathMaxOf(a, b) ==
    IF ~(IsNum(a) /\ IsNum(b)) THEN NaN ELSE IF NumLess(a, b) THEN b ELSE a

\* JavaScript truthiness: what `v || w` and `if (v)` test.
Truthy(v) ==
    CASE v.k = "num" -> v.n # 0
      [] v.k = "str" -> v.s # <<>>
      [] v.k \in {"obj", "inf"} -> TRUE
      [] OTHER -> FALSE
\* a || b
OrElse(a, b) == IF Truthy(a) THEN a ELSE b

-----------------------------------------------------------------------------
(* Strings: parseFloat, trim, String.split(DILIMITER_REG), number to string. *)

Digits == <<"0", "1", "2", "3", "4", "5", "6", "7", "8", "9">>
IsDigit(c) == \E i \in 1..10 : Digits[i] = c
DigitVal(c) == (CHOOSE i \in 1..10 : Digits[i] = c) - 1
\* \s of a regular expression, and what trim and parseFloat skip.
IsSpace(c) == c \in {" ", "\t", "\n"}
\* DILIMITER_REG = /[\s,]+/ matches a run of these.
IsDelimiter(c) == IsSpace(c) \/ c = ","

RECURSIVE Pow10(_)
Pow10(e) == IF e = 0 THEN 1 ELSE 10 * Pow10(e - 1)

\* The first index at or after i that holds no white space (no digit).
RECURSIVE SkipSpace(_, _)
SkipSpace(s, i) == IF i <= Len(s) /\ IsSpace(s[i]) THEN SkipSpace(s, i + 1) ELSE i
RECURSIVE DigitRun(_, _)
DigitRun(s, i) == IF i <= Len(s) /\ IsDigit(s[i]) THEN DigitRun(s, i + 1) ELSE i

\* The value of the digits s[i..j-1].
RECURSIVE DigitsToInt(_, _, _)
DigitsToInt(s, i, j) ==
    IF i >= j THEN 0 ELSE 10 * DigitsToInt(s, i, j - 1) + DigitVal(s[j - 1])

\* parseFloat of a string: leading white space, a sign, digits, a fraction;
\* what follows is ignored, and NaN when no digit is found.  Exponents
\* (1e3) and "Infinity" are not modelled: no input of the model holds them.
ParseFloatChars(s) ==
    LET i0 == SkipSpace(s, 1)
        signed == i0 <= Len(s) /\ s[i0] \in {"-", "+"}
        neg == i0 <= Len(s) /\ s[i0] = "-"
        i1 == IF signed THEN i0 + 1 ELSE i0
        i2 == DigitRun(s, i1)
        hasDot == i2 <= Len(s) /\ s[i2] = "."
        i3 == IF hasDot THEN DigitRun(s, i2 + 1) ELSE i2
        fracLen == IF hasDot THEN i3 - (i2 + 1) ELSE 0
        ip == DigitsToInt(s, i1, i2)
        fp == IF fracLen > 0 THEN DigitsToInt(s, i2 + 1, i3) ELSE 0
        mag == Frac(ip * Pow10(fracLen) + fp, Pow10(fracLen))
    IN  IF i2 = i1 /\ fracLen = 0 THEN NaN
        ELSE IF neg THEN NumNeg(mag) ELSE mag

\* The decimal digits of a natural number.
RECURSIVE NatToChars(_)
NatToChars(i) ==
    IF i < 10 THEN <<Digits[i + 1]>>
    ELSE Append(NatToChars(i \div 10), Digits[(i % 10) + 1])

\* ToString of a value, as string concatenation applies it.  A number that
\* is not an integer has no finite digit string here and is written "n/d".
ToStringChars(v) ==
    CASE v.k = "str" -> v.s
      [] v.k = "num" ->
            (IF v.n < 0 THEN <<"-">> ELSE <<>>) \o NatToChars(Abs(v.n))
            \o (IF v.d = 1 THEN <<>> ELSE <<"/">> \o NatToChars(v.d))
      [] v.k = "nan" -> <<"N", "a", "N">>
      [] v.k = "inf" -> <<"I", "n", "f", "i", "n", "i", "t", "y">>
      [] v.k = "null" -> <<"n", "u", "l", "l">>
      [] v.k = "obj" -> <<"[", "o", "b", "j", "e", "c", "t", "]">>
      [] OTHER -> <<"u", "n", "d", "e", "f", "i", "n", "e", "d">>

\* parseFloat(v): the argument is converted to a string first.
ParseFloat(v) ==
    IF v.k = "num" THEN v ELSE ParseFloatChars(ToStringChars(v))

\* ToNumber of a value that is not a string.
ToNumber(v) ==
    CASE v.k \in {"num", "inf"} -> v
      [] v.k = "null" -> Num(0)
      [] OTHER -> NaN

\* a + b (and a += b): concatenation as soon as one operand is a string.
Plus(a, b) ==
    IF a.k = "str" \/ b.k = "str"
    THEN Str(ToStringChars(a) \o ToStringChars(b))
    ELSE IF ToNumber(a).k = "inf" \/ ToNumber(b).k = "inf" THEN Infinite
    ELSE NumAdd(ToNumber(a), ToNumber(b))

\* trim(str)
RECURSIVE TrimRight(_)
TrimRight(s) ==
    IF s # <<>> /\ IsSpace(s[Len(s)]) THEN TrimRight(SubSeq(s, 1, Len(s) - 1)) ELSE s
Trim(s) == LET i == SkipSpace(s, 1) IN TrimRight(SubSeq(s, i, Len(s)))

\* The first index at or after i that holds no delimiter.
RECURSIVE SkipDelimiter(_, _)
SkipDelimiter(s, i) ==
    IF i <= Len(s) /\ IsDelimiter(s[i]) THEN SkipDelimiter(s, i + 1) ELSE i

\* str.split(DILIMITER_REG) from index i on, cur the token being read.
RECURSIVE SplitFrom(_, _, _, _)
SplitFrom(s, i, cur, acc) ==
    IF i > Len(s) THEN Append(acc, cur)
    ELSE IF IsDelimiter(s[i])
         THEN SplitFrom(s, SkipDelimiter(s, i), <<>>, Append(acc, cur))
         ELSE SplitFrom(s, i + 1, Append(cur, s[i]), acc)
Split(s) == SplitFrom(s, 1, <<>>, <<>>)

\* str[i] for a 0-based i: a one-character string, or undefined.
CharAt(s, i) == IF i + 1 <= Len(s) THEN Str(<<s[i + 1]>>) ELSE Undefined

-----------------------------------------------------------------------------
(* The matrix primitives of core/matrix (not in this file): a matrix is   *)
(* <<a, b, c, d, e, f>> and maps (x, y) to (a*x + c*y + e, b*x + d*y + f). *)
(* translate, scale and rotate apply their operation after the matrix.     *)

MatrixCreate == <<Num(1), Num(0), Num(0), Num(1), Num(0), Num(0)>>

MatrixTranslate(a, v) ==
    <<a[1], a[2], a[3], a[4], NumAdd(a[5], v[1]), NumAdd(a[6], v[2])>>

MatrixScale(a, v) ==
    <<NumMul(a[1], v[1]), NumMul(a[2], v[2]), NumMul(a[3], v[1]),
      NumMul(a[4], v[2]), NumMul(a[5], v[1]), NumMul(a[6], v[2])>>

\* Math.sin and Math.cos are exact only at 0; any other angle gives a value
\* that is no rational, kept as NaN's sibling "irrational".
Irrational == [k |-> "irrational", n |-> 0, d |-> 1, s |-> <<>>]
MathSin(rad) == IF rad = Num(0) THEN Num(0) ELSE IF IsNum(rad) THEN Irrational ELSE NaN
MathCos(rad) == IF rad = Num(0) THEN Num(1) ELSE IF IsNum(rad) THEN Irrational ELSE NaN

MatrixRotate(a, rad) ==
    LET st == MathSin(rad)
        ct == MathCos(rad)
    IN  IF ~IsNum(st)
        THEN <<st, st, st, st, st, st>>
        ELSE << NumAdd(NumMul(a[1], ct), NumMul(a[2], st)),
                NumAdd(NumMul(NumNeg(a[1]), st), NumMul(a[2], ct)),
                NumAdd(NumMul(a[3], ct), NumMul(a[4], st)),
                NumAdd(NumMul(NumNeg(a[3]), st), NumMul(ct, a[4])),
                NumAdd(NumMul(ct, a[5]), NumMul(st, a[6])),
                NumSub(NumMul(ct, a[6]), NumMul(st, a[5])) >>

\* The image of the point p = <<x, y>> under the matrix m.
MapPoint(m, p) ==
    << NumAdd(NumAdd(NumMul(m[1], p[1]), NumMul(m[3], p[2])), m[5]),
       NumAdd(NumAdd(NumMul(m[2], p[1]), NumMul(m[4], p[2])), m[6]) >>

-----------------------------------------------------------------------------
(* parseTransformAttribute *)

TranslateName == <<"t", "r", "a", "n", "s", "l", "a", "t", "e">>
ScaleName == <<"s", "c", "a", "l", "e">>
RotateName == <<"r", "o", "t", "a", "t", "e">>
SkewXName == <<"s", "k", "e", "w", "X">>
SkewYName == <<"s", "k", "e", "w", "Y">>
SkewName == <<"s", "k", "e", "w">>
MatrixName == <<"m", "a", "t", "r", "i", "x">>

\* The alternatives of transformRegex, in its order.
TransformNames ==
    <<TranslateName, ScaleName, RotateName, SkewXName, SkewYName, MatrixName>>

HasPrefixAt(s, i, p) ==
    i + Len(p) - 1 <= Len(s) /\ SubSeq(s, i, i + Len(p) - 1) = p

\* transform.replace(/,/g, ' ')
ReplaceCommas(s) == [i \in 1..Len(s) |-> IF s[i] = "," THEN " " ELSE s[i]]

\* [\-\s0-9\.e,]
IsTransformArgChar(c) == c \in {"-", ".", "e", ","} \/ IsSpace(c) \/ IsDigit(c)
RECURSIVE TransformArgRun(_, _)
TransformArgRun(s, i) ==
    IF i <= Len(s) /\ IsTransformArgChar(s[i]) THEN TransformArgRun(s, i + 1) ELSE i

\* transformRegex tried at index i: name, "(", the argument characters, ")".
TransformMatchAt(s, i) ==
    LET hits == {n \in 1..Len(TransformNames) : HasPrefixAt(s, i, TransformNames[n])}
    IN  IF hits = {} THEN [ok |-> FALSE, type |-> <<>>, value |-> <<>>, next |-> i + 1]
        ELSE LET n == CHOOSE h \in hits : \A g \in hits : h <= g
                 open == i + Len(TransformNames[n])
                 close == TransformArgRun(s, open + 1)
             IN  IF open <= Len(s) /\ s[open] = "(" /\ close <= Len(s) /\ s[close] = ")"
                 THEN [ok |-> TRUE, type |-> TransformNames[n],
                       value |-> SubSeq(s, open + 1, close - 1), next |-> close + 1]
                 ELSE [ok |-> FALSE, type |-> <<>>, value |-> <<>>, next |-> i + 1]

\* The replace callback: every match pushes its type and its value.
RECURSIVE TransformOps(_, _, _)
TransformOps(s, i, ops) ==
    IF i > Len(s) THEN ops
    ELSE LET m == TransformMatchAt(s, i)
         IN  IF m.ok THEN TransformOps(s, m.next, ops \o <<m.type, m.value>>)
             ELSE TransformOps(s, i + 1, ops)

\* One turn of the switch: value and type are strings, and the arguments
\* are read as value[0], value[1], ...: characters of the string.
TransformStep(m, type, value) ==
    CASE type = TranslateName ->
            MatrixTranslate(m, << ParseFloat(CharAt(value, 0)),
                                  ParseFloat(OrElse(CharAt(value, 1), Str(<<"0">>))) >>)
      [] type = ScaleName ->
            MatrixScale(m, << ParseFloat(CharAt(value, 0)),
                              ParseFloat(OrElse(CharAt(value, 1), CharAt(value, 0))) >>)
      [] type = RotateName ->
            MatrixRotate(m, ParseFloat(CharAt(value, 0)))
      [] type = SkewName -> m
      [] type = MatrixName ->
            [j \in 1..6 |-> ParseFloat(CharAt(value, j - 1))]
      [] OTHER -> m

\* for (var i = transformOps.length - 1; i > 0; i -= 2), i counted from 0.
RECURSIVE TransformReplay(_, _, _)
TransformReplay(ops, i, m) ==
    IF i > 0
    THEN TransformReplay(ops, i - 2,
            [has |-> TRUE,
             m |-> TransformStep(IF m.has THEN m.m ELSE MatrixCreate, ops[i], ops[i + 1])])
    ELSE m

\* var m = null
NoMatrix == [has |-> FALSE, m |-> MatrixCreate]

\* The matrix handed to setLocalTransform for a non-empty transform string
\* (has = FALSE: null, no function matched).
ParseTransformText(transform) ==
    LET ops == TransformOps(ReplaceCommas(transform), 1, <<>>)
    IN  TransformReplay(ops, Len(ops) - 1, NoMatrix)

-----------------------------------------------------------------------------
(* Dictionaries (plain objects): a function whose domain is the keys set. *)

EmptyDict == [key \in {} |-> <<>>]
DictSet(dict, key, value) ==
    [x \in DOMAIN dict \cup {key} |-> IF x = key THEN value ELSE dict[x]]
\* extend(target, source): every key of source is written.
Extend(target, source) ==
    [x \in DOMAIN target \cup DOMAIN source |->
        IF x \in DOMAIN source THEN source[x] ELSE target[x]]
\* defaults(target, source): only the keys target lacks are written.
Defaults(target, source) ==
    [x \in DOMAIN target \cup DOMAIN source |->
        IF x \in DOMAIN target THEN target[x] ELSE source[x]]

-----------------------------------------------------------------------------
(* Document nodes.  An element is [nodeType |-> 1, nodeName, attrs], attrs *)
(* a dictionary from attribute name to its text; a text node has nodeType  *)
(* 3 and no attributes.                                                    *)

GetAttribute(xmlNode, name) ==
    IF name \in DOMAIN xmlNode.attrs THEN Str(xmlNode.attrs[name]) ELSE Null

\* nodeName.toLowerCase() on the names the model's documents use.
ToLowerCase(name) ==
    CASE name = "linearGradient" -> "lineargradient"
      [] name = "SVG" -> "svg"
      [] name = "Svg" -> "svg"
      [] OTHER -> name

-----------------------------------------------------------------------------
(* parseStyleAttribute and attributesMap *)

attributesMap ==
    << [svg |-> "fill", zr |-> "fill",
        chars |-> <<"f", "i", "l", "l">>],
       [svg |-> "stroke", zr |-> "stroke",
        chars |-> <<"s", "t", "r", "o", "k", "e">>],
       [svg |-> "stroke-width", zr |-> "lineWidth",
        chars |-> <<"s", "t", "r", "o", "k", "e", "-", "w", "i", "d", "t", "h">>],
       [svg |-> "opacity", zr |-> "opacity",
        chars |-> <<"o", "p", "a", "c", "i", "t", "y">>],
       [svg |-> "fill-opacity", zr |-> "fillOpacity",
        chars |-> <<"f", "i", "l", "l", "-", "o", "p", "a", "c", "i", "t", "y">>],
       [svg |-> "stroke-opacity", zr |-> "strokeOpacity",
        chars |-> <<"s", "t", "r", "o", "k", "e", "-", "o", "p", "a", "c", "i", "t", "y">>],
       [svg |-> "stroke-dasharray", zr |-> "lineDash",
        chars |-> <<"s", "t", "r", "o", "k", "e", "-", "d", "a", "s", "h", "a", "r", "r", "a", "y">>],
       [svg |-> "stroke-dashoffset", zr |-> "lineDashOffset",
        chars |-> <<"s", "t", "r", "o", "k", "e", "-", "d", "a", "s", "h", "o", "f", "f", "s", "e", "t">>],
       [svg |-> "stroke-linecap", zr |-> "lineCap",
        chars |-> <<"s", "t", "r", "o", "k", "e", "-", "l", "i", "n", "e", "c", "a", "p">>],
       [svg |-> "stroke-linejoin", zr |-> "lineJoin",
        chars |-> <<"s", "t", "r", "o", "k", "e", "-", "l", "i", "n", "e", "j", "o", "i", "n">>],
       [svg |-> "stroke-miterlimit", zr |-> "miterLimit",
        chars |-> <<"s", "t", "r", "o", "k", "e", "-", "m", "i", "t", "e", "r", "l", "i", "m", "i", "t">>],
       [svg |-> "font-family", zr |-> "fontFamily",
        chars |-> <<"f", "o", "n", "t", "-", "f", "a", "m", "i", "l", "y">>],
       [svg |-> "font-size", zr |-> "fontSize",
        chars |-> <<"f", "o", "n", "t", "-", "s", "i", "z", "e">>],
       [svg |-> "font-style", zr |-> "fontStyle",
        chars |-> <<"f", "o", "n", "t", "-", "s", "t", "y", "l", "e">>],
       [svg |-> "font-weight", zr |-> "fontWeight",
        chars |-> <<"f", "o", "n", "t", "-", "w", "e", "i", "g", "h", "t">>],
       [svg |-> "text-align", zr |-> "textAlign",
        chars |-> <<"t", "e", "x", "t", "-", "a", "l", "i", "g", "n">>],
       [svg |-> "alignment-baseline", zr |-> "textBaseline",
        chars |-> <<"a", "l", "i", "g", "n", "m", "e", "n", "t", "-", "b", "a", "s", "e", "l", "i", "n", "e">>] >>

\* [^\s:;]
IsStyleKeyChar(c) == ~IsSpace(c) /\ c \notin {":", ";"}
\* [^:;]
IsStyleValueChar(c) == c \notin {":", ";"}
RECURSIVE StyleKeyRun(_, _)
StyleKeyRun(s, i) ==
    IF i <= Len(s) /\ IsStyleKeyChar(s[i]) THEN StyleKeyRun(s, i + 1) ELSE i
RECURSIVE StyleValueRun(_, _)
StyleValueRun(s, i) ==
    IF i <= Len(s) /\ IsStyleValueChar(s[i]) THEN StyleValueRun(s, i + 1) ELSE i

\* styleRegex = /([^\s:;]+)\s*:\s*([^:;]+)/ tried at index i.  The key run
\* is taken whole; the white space after the colon is skipped unless the
\* value would be empty, and then its last character is the value.
StyleMatchAt(s, i) ==
    LET none == [ok |-> FALSE, key |-> <<>>, value |-> <<>>, next |-> i + 1]
        keyEnd == StyleKeyRun(s, i)
        colon == SkipSpace(s, keyEnd)
        afterColon == colon + 1
        valueStart == SkipSpace(s, afterColon)
        from == IF valueStart <= Len(s) /\ IsStyleValueChar(s[valueStart])
                THEN valueStart ELSE valueStart - 1
        valueEnd == StyleValueRun(s, from)
    IN  IF keyEnd = i \/ colon > Len(s) THEN none
        ELSE IF s[colon] # ":" THEN none
        ELSE IF from < afterColon THEN none
        ELSE [ok |-> TRUE, key |-> SubSeq(s, i, keyEnd - 1),
              value |-> SubSeq(s, from, valueEnd - 1), next |-> valueEnd]

\* The exec loop: styleList[key] = value for every match, left to right.
RECURSIVE StyleList(_, _, _)
StyleList(s, i, list) ==
    IF i > Len(s) THEN list
    ELSE LET m == StyleMatchAt(s, i)
         IN  IF m.ok THEN StyleList(s, m.next, DictSet(list, m.key, m.value))
             ELSE StyleList(s, i + 1, list)

ParseStyleAttribute(xmlNode) ==
    LET style == GetAttribute(xmlNode, "style")
    IN  IF ~Truthy(style) THEN EmptyDict
        ELSE LET styleList == StyleList(style.s, 1, EmptyDict)
                 hit == {r \in 1..Len(attributesMap) :
                            attributesMap[r].chars \in DOMAIN styleList}
             IN  [zr \in {attributesMap[r].zr : r \in hit} |->
                    styleList[attributesMap[CHOOSE r \in hit : attributesMap[r].zr = zr].chars]]

-----------------------------------------------------------------------------
(* getPaint *)

UrlOpen == <<"u", "r", "l", "(">>
\* The first ")" at or after index i, or 0.
RECURSIVE FindClose(_, _)
FindClose(s, i) ==
    IF i > Len(s) THEN 0 ELSE IF s[i] = ")" THEN i ELSE FindClose(s, i + 1)

\* urlRegex = /url\(\s*#(.*?)\)/ : the first place it matches from index i
\* on, and its group.
RECURSIVE UrlMatch(_, _)
UrlMatch(s, i) ==
    IF i > Len(s) THEN [ok |-> FALSE, group |-> <<>>]
    ELSE LET hash == SkipSpace(s, i + Len(UrlOpen))
             close == FindClose(s, hash + 1)
         IN  IF HasPrefixAt(s, i, UrlOpen) /\ hash <= Len(s) /\ s[hash] = "#" /\ close > 0
             THEN [ok |-> TRUE, group |-> SubSeq(s, hash + 1, close - 1)]
             ELSE UrlMatch(s, i + 1)

\* The registry is a plain object ({}), so defs[url] also finds the members
\* every object inherits from Object.prototype; these are some of them.
ObjectPrototypeKeys ==
    {<<"v", "a", "l", "u", "e", "O", "f">>,
     <<"t", "o", "S", "t", "r", "i", "n", "g">>,
     <<"c", "o", "n", "s", "t", "r", "u", "c", "t", "o", "r">>}
\* Object 0 stands for an inherited member; gradients are numbered from 1.
PrototypeMember == Obj(0)

\* registry is [has, map]: has is FALSE for the null the root is resolved
\* with.  The result is an object, undefined, or the string itself.
GetPaint(str, registry) ==
    LET urlMatch == UrlMatch(str, 1)
    IN  IF registry.has /\ str # <<>> /\ urlMatch.ok
        THEN LET url == Trim(urlMatch.group)
             IN  IF url \in DOMAIN registry.map THEN Obj(registry.map[url])
                 ELSE IF url \in ObjectPrototypeKeys THEN PrototypeMember
                 ELSE Undefined
        ELSE Str(str)

-----------------------------------------------------------------------------
(* Scene nodes (Group, the shapes, Text, Image).  A node carries what the  *)
(* importer sets on it; a shape's geometry (setShape) is not carried.      *)
(* xml is the document node the scene node was built for.                  *)

NoXml == [nodeType |-> 0, nodeName |-> "", attrs |-> EmptyDict, children |-> <<>>]

NewElement(type) ==
    [type |-> type,
     parent |-> 0,                     \* the Group it was added to, 0: none
     hasInherited |-> FALSE,           \* whether __inheritedStyle is set
     inheritedStyle |-> EmptyDict,     \* __inheritedStyle
     style |-> EmptyDict,              \* the properties set on el.style
     lineDash |-> <<>>,                \* el.style.lineDash
     flags |-> {},                     \* el.stroke / el.textStroke set to true
     transform |-> NoMatrix,           \* what setLocalTransform was given
     position |-> <<Num(0), Num(0)>>,
     scale |-> <<Num(1), Num(1)>>,
     width |-> Num(0),                 \* a Text's getBoundingRect().width
     clip |-> <<>>,                    \* the clip path's <<width, height>>
     xml |-> NoXml]

IsGroup(el) == el.type = "group"

\* Transformable.setLocalTransform (not in this file) ignores a null matrix.
SetLocalTransform(node, m) == IF m.has THEN [node EXCEPT !.transform = m] ELSE node

ParseTransformAttribute(xmlNode, node) ==
    LET transform == GetAttribute(xmlNode, "transform")
    IN  IF Truthy(transform)
        THEN SetLocalTransform(node, ParseTransformText(transform.s))
        ELSE node

-----------------------------------------------------------------------------
(* parseAttributes and inheritStyle *)

NumericProps ==
    {"lineWidth", "opacity", "fillOpacity", "strokeOpacity", "miterLimit", "fontSize"}
StringProps ==
    {"lineDashOffset", "lineCap", "lineJoin", "fontWeight", "fontFamily",
     "fontStyle", "textAlign", "textBaseline"}

AutoText == <<"a", "u", "t", "o">>
AlphabeticText == <<"a", "l", "p", "h", "a", "b", "e", "t", "i", "c">>
BottomText == <<"b", "o", "t", "t", "o", "m">>
StartText == <<"s", "t", "a", "r", "t">>
LeftText == <<"l", "e", "f", "t">>
EndText == <<"e", "n", "d">>
RightText == <<"r", "i", "g", "h", "t">>
NoneText == <<"n", "o", "n", "e">>

\* The presentation attributes of the element, under their style names.
AttributeStyle(xmlNode) ==
    LET hit == {r \in 1..Len(attributesMap) : attributesMap[r].svg \in DOMAIN xmlNode.attrs}
    IN  [zr \in {attributesMap[r].zr : r \in hit} |->
            xmlNode.attrs[attributesMap[CHOOSE r \in hit : attributesMap[r].zr = zr].svg]]

\* Lines 544-555: the inline style is written over zrStyle, then every
\* attribute of attributesMap the element carries is written over that.
MergeStyle(zrStyle, xmlNode, onlyInlineStyle) ==
    IF onlyInlineStyle THEN Extend(zrStyle, ParseStyleAttribute(xmlNode))
    ELSE Extend(Extend(zrStyle, ParseStyleAttribute(xmlNode)), AttributeStyle(xmlNode))

\* Lines 574-579: a missing, empty or 'auto' textBaseline becomes
\* 'alphabetic', and 'alphabetic' becomes 'bottom'.
Alphabetic(textBaseline) ==
    IF textBaseline = <<>> \/ textBaseline = AutoText THEN AlphabeticText ELSE textBaseline
Bottom(textBaseline) ==
    IF textBaseline = AlphabeticText THEN BottomText ELSE textBaseline
\* Lines 580-585
LeftRight(textAlign) ==
    IF textAlign = StartText THEN LeftText
    ELSE IF textAlign = EndText THEN RightText
    ELSE textAlign

\* Lines 574-585: textBaseline and textAlign are rewritten in zrStyle.
NormalizeText(zrStyle) ==
    [x \in DOMAIN zrStyle \cup {"textBaseline"} |->
        IF x = "textBaseline"
        THEN Bottom(Alphabetic(IF x \in DOMAIN zrStyle THEN zrStyle[x] ELSE <<>>))
        ELSE IF x = "textAlign" THEN LeftRight(zrStyle[x])
        ELSE zrStyle[x]]

\* The name a style property is set under on el.style (lines 558-559, 570).
ElPropName(propName, isTextEl) ==
    CASE propName = "fill" /\ isTextEl -> "textFill"
      [] propName = "stroke" /\ isTextEl -> "textStroke"
      [] propName = "lineWidth" /\ isTextEl -> "textStrokeWidth"
      [] OTHER -> propName

\* Lines 564-572: fill and stroke through getPaint, the numeric properties
\* through parseFloat, each where zrStyle has the property.
SetPaintsAndNumbers(elStyle, zrStyle, isTextEl, registry) ==
    LET props == ({"fill", "stroke"} \cup NumericProps) \cap DOMAIN zrStyle
    IN  Extend(elStyle,
               [e \in {ElPropName(q, isTextEl) : q \in props} |->
                   LET q == CHOOSE q \in props : ElPropName(q, isTextEl) = e
                   IN  IF q \in NumericProps THEN ParseFloatChars(zrStyle[q])
                       ELSE GetPaint(zrStyle[q], registry)])

\* Lines 587-591
SetStrings(elStyle, zrStyle) ==
    Extend(elStyle, [q \in StringProps \cap DOMAIN zrStyle |-> Str(zrStyle[q])])

ParseFloats(tokens) == [i \in 1..Len(tokens) |-> ParseFloatChars(tokens[i])]

\* Lines 593-597
SetLineDash(lineDash, zrStyle) ==
    IF "lineDash" \in DOMAIN zrStyle /\ zrStyle["lineDash"] # <<>>
    THEN ParseFloats(Split(Trim(zrStyle["lineDash"])))
    ELSE lineDash

\* Lines 599-602
SetStrokeFlag(el) ==
    LET elStrokeProp == ElPropName("stroke", el.type = "text")
        strokeValue == IF elStrokeProp \in DOMAIN el.style THEN el.style[elStrokeProp] ELSE Null
    IN  IF Truthy(strokeValue) /\ strokeValue # Str(NoneText)
        THEN [el EXCEPT !.flags = @ \cup {elStrokeProp}]
        ELSE el

\* Lines 574-604, given el.style after line 572: normalized is the zrStyle
\* of lines 574-585.
SetTextStyle(el, elStyle, normalized) ==
    SetStrokeFlag([el EXCEPT !.style = SetStrings(elStyle, normalized),
                             !.lineDash = SetLineDash(@, normalized),
                             !.hasInherited = TRUE,
                             !.inheritedStyle = normalized])

\* Lines 558-604, given el after line 542 and zrStyle after line 555.
SetStyle(el, zrStyle, registry) ==
    SetTextStyle(el, SetPaintsAndNumbers(el.style, zrStyle, el.type = "text", registry),
                 NormalizeText(zrStyle))

\* Line 537: disp.__inheritedStyle || {}
InheritedStyle(el) == IF el.hasInherited THEN el.inheritedStyle ELSE EmptyDict

parseAttributes(xmlNode, el, registry, onlyInlineStyle) ==
    IF xmlNode.nodeType = 1
    THEN SetStyle(ParseTransformAttribute(xmlNode, el),
                  MergeStyle(InheritedStyle(el), xmlNode, onlyInlineStyle), registry)
    ELSE SetStyle(el, InheritedStyle(el), registry)

\* A parent group as a builder receives it: has is FALSE for undefined.
NoParent == [has |-> FALSE, el |-> NewElement("group")]

\* Lines 488-495
inheritStyle(parent, child) ==
    IF parent.has /\ parent.el.hasInherited
    THEN [child EXCEPT !.hasInherited = TRUE,
                       !.inheritedStyle = Defaults(child.inheritedStyle, parent.el.inheritedStyle)]
    ELSE child

\* Lines 497-507: the loop runs for i = 0, 2, 4, ... while i < list.length,
\* and reads list[i + 1], which is undefined past the end of the list.
parsePoints(pointsString) ==
    LET list == Split(Trim(pointsString))
    IN  [k \in 1..((Len(list) + 1) \div 2) |->
            << ParseFloat(Str(list[2 * k - 1])),
               ParseFloat(IF 2 * k <= Len(list) THEN Str(list[2 * k]) ELSE Undefined) >>]

-----------------------------------------------------------------------------
(* nodeParsers.  A builder returns el, the node handed back to _parseNode, *)
(* styled, the object parseAttributes was applied to, and the text cursor. *)

NodeParserNames ==
    {"g", "rect", "circle", "line", "ellipse", "polygon", "polyline", "image",
     "text", "tspan", "path"}

\* The class each builder instantiates (text and tspan build a Group).
NodeType(nodeName) ==
    CASE nodeName \in {"g", "text", "tspan"} -> "group"
      [] nodeName = "polyline" -> "path"
      [] OTHER -> nodeName

\* inheritStyle(parentGroup, el); parseAttributes(xmlNode, el, this._defs)
Styled(xmlNode, parentGroup, el, registry) ==
    [parseAttributes(xmlNode, inheritStyle(parentGroup, el), registry, FALSE)
        EXCEPT !.xml = xmlNode]

ZeroText == <<"0">>

\* What a builder does after inheritStyle and parseAttributes: styled is
\* the object these were applied to.
Build(nodeName, xmlNode, styled, cursorX, cursorY) ==
    LET x == GetAttribute(xmlNode, "x")
        y == GetAttribute(xmlNode, "y")
        dx == GetAttribute(xmlNode, "dx")
        dy == GetAttribute(xmlNode, "dy")
    IN  CASE nodeName = "polyline" ->
                \* the styled Path is dropped and a new Polyline is returned
                [el |-> [NewElement("polyline") EXCEPT !.xml = xmlNode],
                 styled |-> styled, textX |-> cursorX, textY |-> cursorY]
          [] nodeName = "text" ->
                [el |-> styled, styled |-> styled,
                 textX |-> NumAdd(ParseFloat(OrElse(x, Str(ZeroText))),
                                  ParseFloat(OrElse(dx, Str(ZeroText)))),
                 textY |-> NumAdd(ParseFloat(OrElse(y, Str(ZeroText))),
                                  ParseFloat(OrElse(dy, Str(ZeroText))))]
          [] nodeName = "tspan" ->
                \* dx and dy are the attribute strings, or the number 0
                [el |-> styled, styled |-> styled,
                 textX |-> Plus(IF x.k # "null" THEN ParseFloat(x) ELSE cursorX,
                                OrElse(dx, Num(0))),
                 textY |-> Plus(IF y.k # "null" THEN ParseFloat(y) ELSE cursorY,
                                OrElse(dy, Num(0)))]
          [] OTHER ->
                [el |-> styled, styled |-> styled, textX |-> cursorX, textY |-> cursorY]

nodeParsers(nodeName, xmlNode, parentGroup, registry, cursorX, cursorY) ==
    Build(nodeName, xmlNode,
          Styled(xmlNode, parentGroup, NewElement(NodeType(nodeName)), registry),
          cursorX, cursorY)

-----------------------------------------------------------------------------
(* defineParsers and _parseGradientColorStops *)

DefineParserNames == {"lineargradient"}

\* parseInt(str, 10): white space, a sign, digits; NaN without a digit.
ParseInt(s) ==
    LET i0 == SkipSpace(s, 1)
        signed == i0 <= Len(s) /\ s[i0] \in {"-", "+"}
        i1 == IF signed THEN i0 + 1 ELSE i0
        i2 == DigitRun(s, i1)
    IN  IF i2 = i1 THEN NaN
        ELSE IF s[i0] = "-" THEN Num(-DigitsToInt(s, i1, i2))
        ELSE Num(DigitsToInt(s, i1, i2))

\* str.indexOf(c), counted from 0; -1 when c does not occur.
IndexOf(s, c) ==
    IF \E i \in 1..Len(s) : s[i] = c
    THEN (CHOOSE i \in 1..Len(s) : s[i] = c /\ \A j \in 1..(i - 1) : s[j] # c) - 1
    ELSE -1

BlackText == <<"#", "0", "0", "0", "0", "0", "0">>

\* One stop element: a color stop, or the TypeError of null.indexOf.
ColorStop(stop) ==
    LET offsetStr == GetAttribute(stop, "offset")
        offset == IF IndexOf(offsetStr.s, "%") > 0
                  THEN NumDiv(ParseInt(offsetStr.s), Num(100))
                  ELSE IF Truthy(offsetStr) THEN ParseFloat(offsetStr)
                  ELSE Num(0)
    IN  IF offsetStr.k = "null"
        THEN [ok |-> FALSE, offset |-> NaN, color |-> <<>>]
        ELSE [ok |-> TRUE, offset |-> offset,
              color |-> OrElse(GetAttribute(stop, "stop-color"), Str(BlackText)).s]

\* The loop over the gradient's children from child i on: the color stops
\* pushed, and whether a stop threw.
RECURSIVE ParseGradientColorStops(_, _, _)
ParseGradientColorStops(children, i, colorStops) ==
    IF i > Len(children) THEN [ok |-> TRUE, colorStops |-> colorStops]
    ELSE IF children[i].nodeType # 1
         THEN ParseGradientColorStops(children, i + 1, colorStops)
         ELSE LET stop == ColorStop(children[i])
              IN  IF ~stop.ok THEN [ok |-> FALSE, colorStops |-> colorStops]
                  ELSE ParseGradientColorStops(children, i + 1,
                          Append(colorStops, [offset |-> stop.offset, color |-> stop.color]))

TenText == <<"1", "0">>

\* defineParsers.lineargradient: the gradient, or ok = FALSE when a stop threw.
LinearGradientParser(xmlNode) ==
    LET stops == ParseGradientColorStops(xmlNode.children, 1, <<>>)
    IN  [ok |-> stops.ok,
         x1 |-> ParseInt(OrElse(GetAttribute(xmlNode, "x1"), Str(ZeroText)).s),
         y1 |-> ParseInt(OrElse(GetAttribute(xmlNode, "y1"), Str(ZeroText)).s),
         x2 |-> ParseInt(OrElse(GetAttribute(xmlNode, "x2"), Str(TenText)).s),
         y2 |-> ParseInt(OrElse(GetAttribute(xmlNode, "y2"), Str(ZeroText)).s),
         colorStops |-> stops.colorStops]

-----------------------------------------------------------------------------
(* makeViewBoxTransform *)

\* A variant taking the larger of the two axis scales.
MakeViewBoxTransformMax(viewBoxRect, width, height) ==
    LET scaleX == NumDiv(width, viewBoxRect.width)
        scaleY == NumDiv(height, viewBoxRect.height)
        scale == MathMaxOf(scaleX, scaleY)
    IN  [scale |-> <<scale, scale>>,
         position |->
            << NumAdd(NumMul(NumNeg(NumAdd(viewBoxRect.x, NumDiv(viewBoxRect.width, Num(2)))), scale),
                      NumDiv(width, Num(2))),
               NumAdd(NumMul(NumNeg(NumAdd(viewBoxRect.y, NumDiv(viewBoxRect.height, Num(2)))), scale),
                      NumDiv(height, Num(2))) >>]

MakeViewBoxTransform(viewBoxRect, width, height) ==
    LET scaleX == NumDiv(width, viewBoxRect.width)
        scaleY == NumDiv(height, viewBoxRect.height)
        scale == MathMin(scaleX, scaleY)
    IN  [scale |-> <<scale, scale>>,
         position |->
            << NumAdd(NumMul(NumNeg(NumAdd(viewBoxRect.x, NumDiv(viewBoxRect.width, Num(2)))), scale),
                      NumDiv(width, Num(2))),
               NumAdd(NumMul(NumNeg(NumAdd(viewBoxRect.y, NumDiv(viewBoxRect.height, Num(2)))), scale),
                      NumDiv(height, Num(2))) >>]

-----------------------------------------------------------------------------
(* parseXML: one step per node of the sibling chain. *)

NoEvent ==
    [n |-> 0, op |-> "none", name |-> "", xml |-> NoXml, el |-> 0,
     styled |-> NewElement("none"), define |-> FALSE, underDefs |-> FALSE]
NoResult == [status |-> "none"]
Thrown(what) == [status |-> what]

\* Lines 65-73: a Document (nodeType 9) is entered at its first child.
ParseXMLEnter ==
    /\ pc = "parseXML"
    /\ svgNode' = IF xml.isDocument /\ xml.chain = <<>> THEN 0 ELSE 1
    /\ pc' = "scan"
    /\ UNCHANGED <<xml, nodes, stack, isDefine, isText, textX, textY, defs,
                   grads, ev, result, arg, ret>>

\* Lines 75-79: the loop reads svgNode.nodeName, which throws on null; it
\* ends on an element named svg, and parse() then tests `if (!svg)`.
ParseXMLScan ==
    /\ pc = "scan"
    /\ IF svgNode = 0
       THEN /\ pc' = "error"
            /\ result' = Thrown("TypeError")
            /\ UNCHANGED svgNode
       ELSE IF ToLowerCase(xml.chain[svgNode].nodeName) # "svg"
                \/ xml.chain[svgNode].nodeType # 1
       THEN /\ svgNode' = IF svgNode < Len(xml.chain) THEN svgNode + 1 ELSE 0
            /\ UNCHANGED <<pc, result>>
       ELSE /\ pc' = "parse"
            /\ UNCHANGED <<svgNode, result>>
    /\ UNCHANGED <<xml, nodes, stack, isDefine, isText, textX, textY, defs,
                   grads, ev, arg, ret>>

-----------------------------------------------------------------------------
(* SVGParser.parse, up to the walk (lines 93-116) *)

\* pending: the children the call has still to visit, for an element whose
\* builder read them itself (a gradient's stops); <<>> otherwise.
Frame(name, el, pending) == [name |-> name, el |-> el, pending |-> pending]

ParseStart ==
    /\ pc = "parse"
    /\ IF svgNode = 0
       THEN /\ pc' = "error"
            /\ result' = Thrown("Illegal svg")
            /\ UNCHANGED <<nodes, stack>>
       ELSE /\ pc' = "walk"
            /\ nodes' = <<[parseAttributes(xml.chain[svgNode], NewElement("group"),
                                           [has |-> FALSE, map |-> EmptyDict], TRUE)
                            EXCEPT !.xml = xml.chain[svgNode]]>>
            /\ stack' = <<Frame("svg", 1, <<>>)>>
            /\ UNCHANGED result
    /\ UNCHANGED <<xml, svgNode, isDefine, isText, textX, textY, defs, grads,
                   ev, arg, ret>>

-----------------------------------------------------------------------------
(* SVGParser._parseNode: entering an element (lines 178-209), leaving it   *)
(* (lines 224-230); the loop over its children is the steps in between.    *)

Top == stack[Len(stack)]
ParentGroup == IF Top.el = 0 THEN NoParent ELSE [has |-> TRUE, el |-> nodes[Top.el]]
\* parentGroup.add(el) is a method of Group alone.
CanAdd == ParentGroup.has /\ IsGroup(ParentGroup.el)
Registry == [has |-> TRUE, map |-> defs]

\* Lines 178-209, given what the builders yield: built is the node builder's
\* result and def the gradient builder's, each used where its builder runs.
\* xmlNode is the child entered, rest the children the parent's loop has
\* still to visit when they are known beforehand.
Enter(xmlNode, rest, nodeName, define, built, def) ==
    LET text == IF nodeName # "defs" /\ nodeName = "text" THEN TRUE ELSE isText
        underDefs == nodeName = "defs" \/ \E i \in 1..Len(stack) : stack[i].name = "defs"
        runsDefine == define /\ nodeName \in DefineParserNames
        runsNode == ~define /\ nodeName \in NodeParserNames
        id == GetAttribute(xmlNode, "id")
        throws == (runsDefine /\ ~def.ok) \/ (runsNode /\ ~CanAdd)
    IN  /\ pc = "walk"
        /\ ev' = [n |-> ev.n + 1, op |-> IF throws THEN "throw" ELSE "enter",
                  name |-> nodeName, xml |-> xmlNode,
                  el |-> IF runsNode /\ ~throws THEN Len(nodes) + 1 ELSE 0,
                  styled |-> IF runsNode THEN built.styled ELSE NewElement("none"),
                  define |-> define, underDefs |-> underDefs]
        /\ IF throws
           THEN /\ pc' = "error"
                /\ result' = Thrown("TypeError")
                /\ UNCHANGED <<nodes, stack, isDefine, isText, textX, textY, defs, grads>>
           ELSE /\ isDefine' = define
                /\ isText' = text
                /\ nodes' = IF runsNode
                            THEN Append(nodes, [built.el EXCEPT !.parent = Top.el])
                            ELSE nodes
                /\ textX' = IF runsNode THEN built.textX ELSE textX
                /\ textY' = IF runsNode THEN built.textY ELSE textY
                /\ grads' = IF nodeName = "lineargradient"
                            THEN Append(grads,
                                    [id |-> id, built |-> runsDefine,
                                     registered |-> runsDefine /\ Truthy(id),
                                     underDefs |-> underDefs, n |-> ev.n + 1,
                                     x1 |-> def.x1, y1 |-> def.y1, x2 |-> def.x2,
                                     y2 |-> def.y2, colorStops |-> def.colorStops])
                            ELSE grads
                /\ defs' = IF runsDefine /\ Truthy(id)
                           THEN DictSet(defs, id.s, Len(grads) + 1)
                           ELSE defs
                /\ stack' = Append([stack EXCEPT ![Len(stack)].pending = rest],
                                   Frame(nodeName, IF runsNode THEN Len(nodes) + 1 ELSE 0,
                                         xmlNode.children))
                /\ UNCHANGED <<pc, result>>
        /\ UNCHANGED <<xml, svgNode, arg, ret>>

ParseNodeEnter(xmlNode, rest) ==
    Enter(xmlNode, rest, ToLowerCase(xmlNode.nodeName),
          isDefine \/ ToLowerCase(xmlNode.nodeName) = "defs",
          nodeParsers(ToLowerCase(xmlNode.nodeName), xmlNode, ParentGroup, Registry,
                      textX, textY),
          LinearGradientParser(xmlNode))

\* Lines 224-230, once the loop over the children has ended.
ParseNodeLeave ==
    /\ pc = "walk"
    /\ Len(stack) > 1
    /\ Top.pending = <<>>
    /\ stack' = SubSeq(stack, 1, Len(stack) - 1)
    /\ isDefine' = IF Top.name = "defs" THEN FALSE ELSE isDefine
    /\ isText' = IF Top.name # "defs" /\ Top.name = "text" THEN FALSE ELSE isText
    /\ ev' = [NoEvent EXCEPT !.n = ev.n, !.op = "leave", !.name = Top.name]
    /\ UNCHANGED <<xml, svgNode, pc, nodes, textX, textY, defs, grads, result, arg, ret>>

-----------------------------------------------------------------------------
(* SVGParser._parseText, for a text node child (lines 218-220, 233-267).   *)
(* width is what text.getBoundingRect() measures.                          *)

TextNode == [nodeType |-> 3, nodeName |-> "#text", attrs |-> EmptyDict, children |-> <<>>]

\* Lines 252-259: a font size under 9 is set to 9 and the node is scaled.
ClampFontSize(text) ==
    LET fontSize == IF "fontSize" \in DOMAIN text.style THEN text.style["fontSize"] ELSE Null
    IN  IF Truthy(fontSize) /\ NumLess(fontSize, Num(9))
        THEN [text EXCEPT !.style = DictSet(text.style, "fontSize", Num(9)),
                          !.scale = << NumMul(text.scale[1], NumDiv(fontSize, Num(9))),
                                       NumMul(text.scale[2], NumDiv(fontSize, Num(9))) >>]
        ELSE text

\* Lines 233-267, given text, the Text node after lines 240-259.
AddText(width, text) ==
    LET runs == Len(stack) > 1 /\ isText
        throws == runs /\ ~CanAdd
    IN  /\ pc = "walk"
        /\ ev' = [n |-> ev.n + 1,
                  op |-> IF throws THEN "throw" ELSE IF runs THEN "text" ELSE "skip",
                  name |-> "#text", xml |-> TextNode,
                  el |-> IF runs /\ ~throws THEN Len(nodes) + 1 ELSE 0,
                  styled |-> IF runs THEN text ELSE NewElement("none"),
                  define |-> isDefine,
                  underDefs |-> \E i \in 1..Len(stack) : stack[i].name = "defs"]
        /\ IF throws
           THEN /\ pc' = "error"
                /\ result' = Thrown("TypeError")
                /\ UNCHANGED <<nodes, textX>>
           ELSE IF runs
           THEN /\ nodes' = Append(nodes, [text EXCEPT !.parent = Top.el, !.width = width,
                                                        !.xml = TextNode])
                /\ textX' = Plus(textX, width)
                /\ UNCHANGED <<pc, result>>
           ELSE UNCHANGED <<pc, result, nodes, textX>>
        /\ UNCHANGED <<xml, svgNode, stack, isDefine, isText, textY, defs, grads, arg, ret>>

ParseTextNode(width) ==
    AddText(width,
            ClampFontSize(parseAttributes(TextNode,
                inheritStyle(ParentGroup,
                    [NewElement("text") EXCEPT
                        !.position = <<OrElse(textX, Num(0)), OrElse(textY, Num(0))>>]),
                Registry, FALSE)))

-----------------------------------------------------------------------------
(* SVGParser.parse, after the walk (lines 124-173).  arg.opt is the opt    *)
(* argument: width and height are numbers or undefined.                    *)

\* A variant of WrapRoot that sets the transform on the new outer group.
WrapRootOuter(tree, viewBoxTransform) ==
    Append([tree EXCEPT ![1].parent = Len(tree) + 1],
           [NewElement("group") EXCEPT !.scale = viewBoxTransform.scale,
                                       !.position = viewBoxTransform.position])

\* Lines 150-154: elRoot (node 1) is added to a new Group, which becomes
\* root, and elRoot is given the scale and the position.
WrapRoot(tree, viewBoxTransform) ==
    Append([tree EXCEPT ![1].parent = Len(tree) + 1,
                        ![1].scale = viewBoxTransform.scale,
                        ![1].position = viewBoxTransform.position],
           NewElement("group"))

\* parseFloat(...) with isNaN(v) && (v = null)
NumberOrNull(v) == IF ParseFloat(v).k = "nan" THEN Null ELSE ParseFloat(v)

\* Lines 127-138: the viewBox text split into at least four fields.
ViewBoxFields(viewBox, viewBoxArr) ==
    IF viewBox # <<>> /\ Len(viewBoxArr) >= 4
    THEN [has |-> TRUE,
          x |-> ParseFloat(OrElse(Str(viewBoxArr[1]), Num(0))),
          y |-> ParseFloat(OrElse(Str(viewBoxArr[2]), Num(0))),
          width |-> ParseFloatChars(viewBoxArr[3]),
          height |-> ParseFloatChars(viewBoxArr[4])]
    ELSE [has |-> FALSE, x |-> Null, y |-> Null, width |-> Null, height |-> Null]
ViewBoxRect(viewBox) == ViewBoxFields(viewBox, Split(Trim(viewBox)))

\* Lines 140-173, given the viewBoxRect, width and height of lines 105-138.
Assemble(opt, viewBoxRect, width, height) ==
    LET hasTransform == viewBoxRect.has /\ width.k # "null" /\ height.k # "null"
        viewBoxTransform == MakeViewBoxTransform(viewBoxRect, width, height)
        wraps == hasTransform /\ ~opt.ignoreViewBox
        root == IF wraps THEN Len(nodes) + 1 ELSE 1
        clips == ~opt.ignoreRootClip /\ width.k # "null" /\ height.k # "null"
        clip == IF clips THEN <<width, height>> ELSE <<>>
    IN  /\ nodes' = IF wraps
                    THEN [WrapRoot(nodes, viewBoxTransform) EXCEPT ![root].clip = clip]
                    ELSE [nodes EXCEPT ![root].clip = clip]
        /\ result' = [status |-> "returned", root |-> root,
                      width |-> width, height |-> height,
                      viewBoxRect |-> viewBoxRect,
                      viewBoxTransform |->
                         IF hasTransform
                         THEN [has |-> TRUE, scale |-> viewBoxTransform.scale,
                               position |-> viewBoxTransform.position]
                         ELSE [has |-> FALSE, scale |-> <<>>, position |-> <<>>]]

ParseFinish ==
    /\ pc = "walk"
    /\ Len(stack) = 1
    /\ Assemble(arg.opt,
                ViewBoxRect(OrElse(GetAttribute(xml.chain[svgNode], "viewBox"), Str(<<>>)).s),
                NumberOrNull(OrElse(GetAttribute(xml.chain[svgNode], "width"), arg.opt.width)),
                NumberOrNull(OrElse(GetAttribute(xml.chain[svgNode], "height"), arg.opt.height)))
    /\ pc' = "done"
    /\ stack' = <<>>
    /\ ev' = [NoEvent EXCEPT !.n = ev.n, !.op = "return", !.name = "svg"]
    /\ UNCHANGED <<xml, svgNode, isDefine, isText, textX, textY, defs, grads, arg, ret>>

-----------------------------------------------------------------------------
(* The steps of one parseSVG call over the documents a specification       *)
(* feeds it: Children(name) are the elements that may occur under an       *)
(* element named name, Widths the widths a text run may measure.           *)

Element(name, attrs, children) ==
    [nodeType |-> 1, nodeName |-> name, attrs |-> attrs, children |-> children]

VisitElement(xmlNode) ==
    /\ Top.pending = <<>>
    /\ ParseNodeEnter(xmlNode, <<>>)

\* The next child of an element whose children its builder already read.
VisitPending ==
    /\ pc = "walk"
    /\ Top.pending # <<>>
    /\ Head(Top.pending).nodeType = 1
    /\ ParseNodeEnter(Head(Top.pending), Tail(Top.pending))

VisitText(width) ==
    /\ Top.pending = <<>>
    /\ ParseTextNode(width)

NewParser ==
    /\ svgNode = 0
    /\ nodes = <<>>
    /\ stack = <<>>
    /\ isDefine = FALSE
    /\ isText = FALSE
    /\ textX = Undefined
    /\ textY = Undefined
    /\ defs = EmptyDict
    /\ grads = <<>>
    /\ ev = NoEvent
    /\ result = NoResult

NoOptions ==
    [width |-> Undefined, height |-> Undefined, ignoreViewBox |-> FALSE,
     ignoreRootClip |-> FALSE]

NoDocument == [isDocument |-> TRUE, chain |-> <<>>]

-----------------------------------------------------------------------------
(* makeViewBoxTransform applied on its own to a viewBox and a viewport. *)

ViewBoxOrigins == {0, 10, -20}
ViewBoxSizes == {100, 50, 30}
ViewportSizes == {200, 100, 45}

InitViewBox ==
    /\ NewParser
    /\ xml = NoDocument
    /\ pc = "call"
    /\ arg \in [fn : {"makeViewBoxTransform"}, x : ViewBoxOrigins, y : ViewBoxOrigins,
                width : ViewBoxSizes, height : ViewBoxSizes,
                viewportWidth : ViewportSizes, viewportHeight : ViewportSizes]
    /\ ret = [scale |-> <<>>, position |-> <<>>]

CallMakeViewBoxTransform ==
    /\ pc = "call"
    /\ arg.fn = "makeViewBoxTransform"
    /\ ret' = MakeViewBoxTransform(
                [x |-> Num(arg.x), y |-> Num(arg.y),
                 width |-> Num(arg.width), height |-> Num(arg.height)],
                Num(arg.viewportWidth), Num(arg.viewportHeight))
    /\ pc' = "return"
    /\ UNCHANGED <<xml, svgNode, nodes, stack, isDefine, isText, textX, textY,
                   defs, grads, ev, result, arg>>

NextViewBox == CallMakeViewBoxTransform
SpecViewBox == InitViewBox /\ [][NextViewBox]_vars

-----------------------------------------------------------------------------
(* parseTransformAttribute applied on its own to a transform attribute:    *)
(* arg.fns is the function list as written, arg.transform its text.        *)

MaxTransformFunctions == 2

TransformFunctions ==
    {[type |-> "translate", args |-> a] : a \in {<<10, 0>>, <<3>>, <<3, 4>>, <<-5, 2>>}}
    \cup {[type |-> "scale", args |-> a] : a \in {<<2>>, <<2, 3>>, <<12>>}}
    \cup {[type |-> "rotate", args |-> <<0>>], [type |-> "skewX", args |-> <<30>>],
          [type |-> "matrix", args |-> <<1, 0, 0, 1, 5, 6>>]}

TransformLists ==
    UNION {[1..n -> TransformFunctions] : n \in 1..MaxTransformFunctions}

IntToChars(i) == (IF i < 0 THEN <<"-">> ELSE <<>>) \o NatToChars(Abs(i))

TypeChars(type) ==
    CASE type = "translate" -> TranslateName
      [] type = "scale" -> ScaleName
      [] type = "rotate" -> RotateName
      [] type = "skewX" -> SkewXName
      [] type = "matrix" -> MatrixName

\* The text of an argument list, "10,0", and of a function list,
\* "translate(10,0) scale(2)".
RECURSIVE ArgsText(_, _)
ArgsText(args, i) ==
    IF i > Len(args) THEN <<>>
    ELSE (IF i > 1 THEN <<",">> ELSE <<>>) \o IntToChars(args[i]) \o ArgsText(args, i + 1)
RECURSIVE TransformText(_, _)
TransformText(fns, i) ==
    IF i > Len(fns) THEN <<>>
    ELSE (IF i > 1 THEN <<" ">> ELSE <<>>)
         \o TypeChars(fns[i].type) \o <<"(">> \o ArgsText(fns[i].args, 1) \o <<")">>
         \o TransformText(fns, i + 1)

InitTransform ==
    /\ NewParser
    /\ xml = NoDocument
    /\ pc = "call"
    /\ \E fns \in TransformLists :
          arg = [fn |-> "parseTransformAttribute", fns |-> fns,
                 transform |-> TransformText(fns, 1)]
    /\ ret = NoMatrix

CallParseTransformAttribute ==
    /\ pc = "call"
    /\ arg.fn = "parseTransformAttribute"
    /\ ret' = ParseTransformAttribute(
                Element("g", [a \in {"transform"} |-> arg.transform], <<>>),
                NewElement("group")).transform
    /\ pc' = "return"
    /\ UNCHANGED <<xml, svgNode, nodes, stack, isDefine, isText, textX, textY,
                   defs, grads, ev, result, arg>>

NextTransform == CallParseTransformAttribute
SpecTransform == InitTransform /\ [][NextTransform]_vars

-----------------------------------------------------------------------------
(* parsePoints applied on its own to a points attribute: arg.tokens are    *)
(* the numbers as written, arg.pointsString their text, the tokens joined  *)
(* by one separator and written with or without surrounding white space.   *)

MaxTokens == 4

PointTokens == {1, 20, -3}
PointSeparators == {<<",">>, <<" ">>, <<",", " ">>, <<" ", ",", "\n">>}
PointPaddings == {<<>>, <<" ">>}

RECURSIVE PointsText(_, _, _)
PointsText(tokens, sep, i) ==
    IF i > Len(tokens) THEN <<>>
    ELSE (IF i > 1 THEN sep ELSE <<>>) \o IntToChars(tokens[i]) \o PointsText(tokens, sep, i + 1)

InitPoints ==
    /\ NewParser
    /\ xml = NoDocument
    /\ pc = "call"
    /\ \E n \in 1..MaxTokens :
       \E tokens \in [1..n -> PointTokens] :
       \E sep \in PointSeparators :
       \E pad \in PointPaddings :
          arg = [fn |-> "parsePoints", tokens |-> tokens,
                 pointsString |-> pad \o PointsText(tokens, sep, 1) \o pad]
    /\ ret = <<>>

CallParsePoints ==
    /\ pc = "call"
    /\ arg.fn = "parsePoints"
    /\ ret' = parsePoints(arg.pointsString)
    /\ pc' = "return"
    /\ UNCHANGED <<xml, svgNode, nodes, stack, isDefine, isText, textX, textY,
                   defs, grads, ev, result, arg>>

SpecPoints == InitPoints /\ [][CallParsePoints]_vars

-----------------------------------------------------------------------------
(* parseXML and the root test of parse, over sibling chains of up to       *)
(* MaxSiblings nodes: a doctype (whose nodeName is also svg), a comment,   *)
(* a text node, and elements named svg, SVG and html.                      *)

MaxSiblings == 3

Plain(nodeType, nodeName) ==
    [nodeType |-> nodeType, nodeName |-> nodeName, attrs |-> EmptyDict, children |-> <<>>]

RootNodes ==
    {Plain(10, "svg"), Plain(8, "#comment"), Plain(3, "#text"),
     Plain(1, "svg"), Plain(1, "SVG"), Plain(1, "html")}

ParseCall(opt) == [fn |-> "parseSVG", opt |-> opt]

InitRoot ==
    /\ NewParser
    /\ pc = "parseXML"
    /\ \E isDocument \in BOOLEAN :
       \E n \in 0..MaxSiblings :
       \E chain \in [1..n -> RootNodes] :
          /\ isDocument \/ n > 0
          /\ xml = [isDocument |-> isDocument, chain |-> chain]
    /\ arg = ParseCall(NoOptions)
    /\ ret = <<>>

NextRoot ==
    \/ ParseXMLEnter
    \/ ParseXMLScan
    \/ ParseStart
    \/ ParseFinish
SpecRoot == InitRoot /\ [][NextRoot]_vars

-----------------------------------------------------------------------------
(* Attribute texts the documents below are written with. *)

UrlG1 == <<"u", "r", "l", "(", "#", "g", "1", ")">>
UrlG2Spaced == <<"u", "r", "l", "(", " ", "#", "g", "2", " ", ")">>
IdG1 == <<"g", "1">>
IdG2 == <<"g", "2">>
Attrs1(name, value) == [a \in {name} |-> value]
Attrs2(name1, value1, name2, value2) ==
    [a \in {name1, name2} |-> IF a = name1 THEN value1 ELSE value2]

Doctype == Plain(10, "svg")
Document(svgAttrs) ==
    [isDocument |-> TRUE, chain |-> <<Doctype, Element("svg", svgAttrs, <<>>)>>]

-----------------------------------------------------------------------------
(* Spec: parseSVG over documents of groups, shapes, unknown elements, defs *)
(* and linear gradients, of up to MaxNodes elements nested MaxDepth deep   *)
(* under the svg element, under five calls that differ in the svg          *)
(* element's viewport attributes and in opt.                               *)

MaxNodes == 4
MaxDepth == 2

ViewportAttrs ==
    [a \in {"viewBox", "width", "height"} |->
        IF a = "viewBox" THEN <<"0", " ", "0", " ", "1", "0", "0", " ", "5", "0">> ELSE <<"2", "0", "0">>]

CommaViewBoxAttrs == Attrs1("viewBox", <<" ", "1", "0", ",", "2", "0", ",", " ", "3", "0", " ", "3", "0">>)

Calls ==
    { [xml |-> Document(ViewportAttrs), opt |-> NoOptions],
      [xml |-> Document(Extend(ViewportAttrs, Attrs1("style", <<"f", "i", "l", "l", ":", "u", "r", "l", "(", "#", "g", "1", ")">>))),
       opt |-> [NoOptions EXCEPT !.ignoreViewBox = TRUE, !.ignoreRootClip = TRUE]],
      [xml |-> Document(EmptyDict),
       opt |-> [NoOptions EXCEPT !.width = Num(300), !.height = Num(150)]],
      [xml |-> Document(Attrs1("viewBox", NoneText)), opt |-> NoOptions],
      [xml |-> Document(CommaViewBoxAttrs),
       opt |-> [NoOptions EXCEPT !.width = Num(90), !.height = Num(45)]] }

UrlValueOf == <<"u", "r", "l", "(", "#", "v", "a", "l", "u", "e", "O", "f", ")">>

PaintAttrs ==
    {Attrs1("fill", UrlG1), Attrs1("stroke", UrlG2Spaced), Attrs1("fill", UrlValueOf)}

StopElement(attrs) == Element("stop", attrs, <<>>)
Gradients ==
    { Element("linearGradient", Attrs1("id", IdG1), <<>>),
      Element("linearGradient", Attrs2("id", IdG2, "x2", <<"1", "0", "0">>),
              <<StopElement(Attrs2("offset", <<"5", "0", "%">>, "stop-color", <<"r", "e", "d">>))>>),
      Element("linearGradient", Attrs1("x1", <<"5">>), <<>>) }

Children(name) ==
    CASE name \in {"svg", "g", "a"} ->
            {Element("rect", a, <<>>) : a \in PaintAttrs}
            \cup {Element("g", EmptyDict, <<>>), Element("a", EmptyDict, <<>>),
                  Element("defs", EmptyDict, <<>>)}
      [] name = "defs" ->
            Gradients
            \cup {Element("defs", EmptyDict, <<>>), Element("rect", Attrs1("fill", UrlG1), <<>>)}
      [] OTHER -> {}

Init ==
    /\ NewParser
    /\ pc = "parseXML"
    /\ \E call \in Calls :
          /\ xml = call.xml
          /\ arg = ParseCall(call.opt)
    /\ ret = <<>>

VisitChild ==
    /\ pc = "walk"
    /\ ev.n < MaxNodes
    /\ Len(stack) <= MaxDepth
    /\ \E xmlNode \in Children(Top.name) : VisitElement(xmlNode)

Next ==
    \/ ParseXMLEnter
    \/ ParseXMLScan
    \/ ParseStart
    \/ VisitChild
    \/ VisitPending
    \/ ParseNodeLeave
    \/ ParseFinish
Spec == Init /\ [][Next]_vars

-----------------------------------------------------------------------------
(* SpecText: parseSVG over documents of text elements, tspans, an unknown  *)
(* element and text runs of two widths, of up to MaxTextNodes nodes.       *)

MaxTextNodes == 5

TextAttrs ==
    {EmptyDict, Attrs2("x", <<"1", "0">>, "y", <<"2", "0">>),
     Extend(Attrs2("x", <<"1", "0">>, "dx", <<"5">>), Attrs1("font-size", <<"6">>))}

TspanAttrs ==
    {EmptyDict, Attrs1("dx", <<"5">>), Attrs1("dy", <<"3">>), Attrs1("x", <<"4", "0">>),
     Extend(Attrs2("x", <<"4", "0">>, "y", <<"8">>), Attrs2("dx", <<"5">>, "dy", <<"3">>))}

Widths == {Num(30), Num(7)}

TextChildren(name) ==
    CASE name = "svg" -> {Element("text", a, <<>>) : a \in TextAttrs}
      [] name = "text" ->
            {Element("tspan", a, <<>>) : a \in TspanAttrs} \cup {Element("a", EmptyDict, <<>>)}
      [] OTHER -> {}

InitText ==
    /\ NewParser
    /\ pc = "parseXML"
    /\ xml = Document(EmptyDict)
    /\ arg = ParseCall(NoOptions)
    /\ ret = <<>>

VisitTextChild ==
    /\ pc = "walk"
    /\ ev.n < MaxTextNodes
    /\ \E xmlNode \in TextChildren(Top.name) : VisitElement(xmlNode)

VisitTextRun ==
    /\ pc = "walk"
    /\ ev.n < MaxTextNodes
    /\ \E width \in Widths : VisitText(width)

NextText ==
    \/ ParseXMLEnter
    \/ ParseXMLScan
    \/ ParseStart
    \/ VisitTextChild
    \/ VisitTextRun
    \/ ParseNodeLeave
    \/ ParseFinish
SpecText == InitText /\ [][NextText]_vars

-----------------------------------------------------------------------------
(* SpecStyle: parseSVG over documents of up to MaxStyleNodes supported     *)
(* elements, each of the eleven builders, under an svg element with or     *)
(* without an inline style; an element carries presentation attributes,    *)
(* an inline style, both or neither.                                       *)

MaxStyleNodes == 2

FillBlue == <<"f", "i", "l", "l", ":", "b", "l", "u", "e">>
WidthAndFill == <<"s", "t", "r", "o", "k", "e", "-", "w", "i", "d", "t", "h", ":", "3", ";", " ", "f", "i", "l", "l", ":", " ", "b", "l", "u", "e">>
RootStyle == <<"f", "i", "l", "l", ":", "g", "r", "e", "e", "n", ";", "s", "t", "r", "o", "k", "e", ":", "b", "l", "a", "c", "k">>

StyleAttrs ==
    {EmptyDict, Attrs1("fill", <<"r", "e", "d">>), Attrs1("style", FillBlue),
     Attrs2("fill", <<"r", "e", "d">>, "style", FillBlue),
     Attrs2("stroke-width", <<"2">>, "style", WidthAndFill)}

StyleChildren(name) ==
    CASE name \in {"svg", "g"} ->
            {Element(n, a, <<>>) : n \in NodeParserNames, a \in StyleAttrs}
      [] OTHER -> {}

InitStyle ==
    /\ NewParser
    /\ pc = "parseXML"
    /\ xml \in {Document(EmptyDict), Document(Attrs1("style", RootStyle))}
    /\ arg = ParseCall(NoOptions)
    /\ ret = <<>>

VisitStyleChild ==
    /\ pc = "walk"
    /\ ev.n < MaxStyleNodes
    /\ \E xmlNode \in StyleChildren(Top.name) : VisitElement(xmlNode)

NextStyle ==
    \/ ParseXMLEnter
    \/ ParseXMLScan
    \/ ParseStart
    \/ VisitStyleChild
    \/ ParseNodeLeave
    \/ ParseFinish
SpecStyle == InitStyle /\ [][NextStyle]_vars

-----------------------------------------------------------------------------
(* SpecDefs: parseSVG over documents of up to MaxDefsNodes nodes in which  *)
(* defs elements hold linear gradients with their stops, further defs      *)
(* elements, shapes, groups and text elements with text runs.  A stop      *)
(* carries an offset as a percentage, as a fraction, empty or not at all,  *)
(* with or without a stop-color.                                           *)

MaxDefsNodes == 5

PercentStop == StopElement(Attrs2("offset", <<"5", "0", "%">>, "stop-color", <<"r", "e", "d">>))
FractionStop == StopElement(Attrs1("offset", <<"0", ".", "5">>))
OneStop == StopElement(Attrs2("offset", <<"1">>, "stop-color", <<"b", "l", "u", "e">>))
EmptyOffsetStop == StopElement(Attrs1("offset", <<>>))
NoOffsetStop == StopElement(Attrs1("stop-color", <<"r", "e", "d">>))

DefsGradients ==
    { Element("linearGradient", Attrs1("id", IdG1), <<PercentStop>>),
      Element("linearGradient", Attrs1("id", IdG2), <<FractionStop, OneStop>>),
      Element("linearGradient", EmptyDict, <<EmptyOffsetStop, PercentStop>>),
      Element("linearGradient", Attrs1("id", IdG1), <<NoOffsetStop>>),
      Element("linearGradient", EmptyDict, <<OneStop, NoOffsetStop>>),
      Element("linearGradient", Attrs1("id", IdG2), <<>>) }

DefsChildren(name) ==
    CASE name = "svg" ->
            {Element("defs", EmptyDict, <<>>), Element("rect", Attrs1("fill", UrlG1), <<>>),
             Element("text", EmptyDict, <<>>)}
      [] name = "defs" ->
            DefsGradients
            \cup {Element("defs", EmptyDict, <<>>), Element("rect", EmptyDict, <<>>),
                  Element("g", EmptyDict, <<>>), Element("text", EmptyDict, <<>>)}
      [] name = "g" -> {Element("rect", EmptyDict, <<>>)}
      [] OTHER -> {}

VisitDefsChild ==
    /\ pc = "walk"
    /\ ev.n < MaxDefsNodes
    /\ \E xmlNode \in DefsChildren(Top.name) : VisitElement(xmlNode)

VisitDefsRun ==
    /\ pc = "walk"
    /\ ev.n < MaxDefsNodes
    /\ \E width \in Widths : VisitText(width)

NextDefs ==
    \/ ParseXMLEnter
    \/ ParseXMLScan
    \/ ParseStart
    \/ VisitDefsChild
    \/ VisitPending
    \/ VisitDefsRun
    \/ ParseNodeLeave
    \/ ParseFinish
SpecDefs == InitText /\ [][NextDefs]_vars

-----------------------------------------------------------------------------
(* C8: for a viewBox (x, y, w, h) and a viewport W x H, makeViewBoxTransform *)
(* returns scale [s, s] with s = min(W/w, H/h) and position                *)
(* (W/2 - (x + w/2)*s, H/2 - (y + h/2)*s); the viewBox centre lands on the *)
(* viewport centre; viewBox (0,0,100,50) in 200 x 200 gives scale 2 and    *)
(* translation (0, 50).                                                    *)
C8_ViewBoxMapping ==
    pc = "return" /\ arg.fn = "makeViewBoxTransform" =>
        LET W == Num(arg.viewportWidth)
            H == Num(arg.viewportHeight)
            x == Num(arg.x)
            y == Num(arg.y)
            w == Num(arg.width)
            h == Num(arg.height)
            s == IF NumLess(NumDiv(H, h), NumDiv(W, w)) THEN NumDiv(H, h) ELSE NumDiv(W, w)
            half == Frac(1, 2)
            centre == <<NumAdd(x, NumMul(w, half)), NumAdd(y, NumMul(h, half))>>
        IN  /\ ret.scale = <<s, s>>
            /\ ret.position = << NumSub(NumMul(W, half), NumMul(centre[1], s)),
                                 NumSub(NumMul(H, half), NumMul(centre[2], s)) >>
            /\ NumAdd(NumMul(centre[1], ret.scale[1]), ret.position[1]) = NumMul(W, half)
            /\ NumAdd(NumMul(centre[2], ret.scale[2]), ret.position[2]) = NumMul(H, half)
            /\ (<<arg.x, arg.y, arg.width, arg.height>> = <<0, 0, 100, 50>>
                /\ arg.viewportWidth = 200 /\ arg.viewportHeight = 200
                => ret.scale = <<Num(2), Num(2)>> /\ ret.position = <<Num(0), Num(50)>>)

\* The spec's example has been mapped, and the height did not decide the scale.
C8_Witness ==
    /\ pc = "return"
    /\ arg.fn = "makeViewBoxTransform"
    /\ <<arg.x, arg.y, arg.width, arg.height>> = <<0, 0, 100, 50>>
    /\ arg.viewportWidth = 200
    /\ arg.viewportHeight = 200
    /\ ret.scale = <<Num(2), Num(2)>>
    /\ ret.position = <<Num(0), Num(50)>>

-----------------------------------------------------------------------------
(* C2: transform="translate(10,0) scale(2)" maps (x, y) to (2x + 10, 2y);  *)
(* in general a list of translate and scale functions is applied rightmost *)
(* first, each with the numbers written in the source.                     *)

SamplePoints == {<<Num(0), Num(0)>>, <<Num(1), Num(0)>>, <<Num(0), Num(1)>>, <<Num(3), Num(7)>>}

\* SVG's reading of one function: translate(tx [ty = 0]), scale(sx [sy = sx]).
ApplyFunction(f, p) ==
    LET a == f.args
    IN  IF f.type = "translate"
        THEN <<NumAdd(p[1], Num(a[1])), NumAdd(p[2], Num(IF Len(a) > 1 THEN a[2] ELSE 0))>>
        ELSE <<NumMul(p[1], Num(a[1])), NumMul(p[2], Num(IF Len(a) > 1 THEN a[2] ELSE a[1]))>>

\* The functions fns[1..i] applied to p, fns[i] first.
RECURSIVE ApplyFunctions(_, _, _)
ApplyFunctions(fns, i, p) ==
    IF i = 0 THEN p ELSE ApplyFunctions(fns, i - 1, ApplyFunction(fns[i], p))

C2_TransformRightmostFirst ==
    (/\ pc = "return"
     /\ arg.fn = "parseTransformAttribute"
     /\ \A i \in 1..Len(arg.fns) : arg.fns[i].type \in {"translate", "scale"})
    => /\ ret.has
       /\ \A p \in SamplePoints : MapPoint(ret.m, p) = ApplyFunctions(arg.fns, Len(arg.fns), p)

-----------------------------------------------------------------------------
(* C3: for every document whose sibling chain holds no element named svg,  *)
(* parseSVG fails with the 'Illegal svg' error raised by parse and returns *)
(* no result.                                                              *)

HasSvgElement(chain) ==
    \E i \in 1..Len(chain) :
        chain[i].nodeType = 1 /\ chain[i].nodeName \in {"svg", "SVG", "Svg"}

C3_NoSvgIsIllegalSvg ==
    (~HasSvgElement(xml.chain) /\ pc \in {"parse", "walk", "done", "error"})
        => (pc = "error" /\ result.status = "Illegal svg")

-----------------------------------------------------------------------------
(* C4: for every document that has an svg root, parseSVG returns a result  *)
(* without raising an error, whatever unknown elements occur: a supported  *)
(* element under an element without a builder does not make it fail.      *)

C4_UnknownElementsTolerated ==
    HasSvgElement(xml.chain) => pc # "error"

-----------------------------------------------------------------------------
(* C5: for every built element whose fill or stroke attribute is url(#id): *)
(* if a linearGradient with that id was visited under a defs earlier in    *)
(* document order, the resolved paint is that gradient object; if the      *)
(* registry holds no definition for id when the element is visited, the    *)
(* resolved paint is undefined.                                            *)

PaintId(text) ==
    CASE text = UrlG1 -> IdG1
      [] text = UrlG2Spaced -> IdG2
      [] text = UrlValueOf -> SubSeq(UrlValueOf, 6, Len(UrlValueOf) - 1)

C5_PaintIsDeclaredGradient ==
    (ev.op \in {"enter", "throw"} /\ ev.styled.type # "none")
        => \A prop \in {"fill", "stroke"} \cap DOMAIN ev.xml.attrs :
              LET id == PaintId(ev.xml.attrs[prop])
                  declared == {i \in 1..Len(grads) :
                                  /\ grads[i].id = Str(id)
                                  /\ grads[i].underDefs
                                  /\ grads[i].n < ev.n}
                  paint == ev.styled.style[prop]
              IN  /\ declared # {} => \E i \in declared : paint = Obj(i)
                  /\ id \notin DOMAIN defs => paint = Undefined

-----------------------------------------------------------------------------
(* C9: when the viewBox is valid, width and height are numeric and         *)
(* ignoreViewBox is not set, the returned root is a new outer group whose  *)
(* only child is the original root group; the viewBox scale and            *)
(* translation are set on the original root group, the outer group has the *)
(* scale and position of a new Group, and every node under the original    *)
(* root is left as it was.                                                 *)

\* The viewBox transform of the two calls that give a viewBox and a
\* viewport: 0 0 100 50 in 200 x 200, and 10,20,30,30 in 90 x 45.
ExpectedTransform ==
    IF xml.chain[svgNode].attrs = ViewportAttrs
    THEN [scale |-> <<Num(2), Num(2)>>, position |-> <<Num(0), Num(50)>>]
    ELSE [scale |-> <<Frac(3, 2), Frac(3, 2)>>, position |-> <<Frac(15, 2), Num(-30)>>]

WrapsExpected ==
    /\ svgNode # 0
    /\ xml.chain[svgNode].attrs \in {ViewportAttrs, CommaViewBoxAttrs}
    /\ ~arg.opt.ignoreViewBox

Assembled == pc = "walk" /\ pc' = "done" /\ WrapsExpected

OuterGroupWrapsRoot ==
    /\ result'.status = "returned"
    /\ result'.root = Len(nodes) + 1
    /\ Len(nodes') = Len(nodes) + 1
    /\ nodes'[result'.root].type = "group"
    /\ nodes'[result'.root].xml = NoXml
    /\ nodes'[result'.root].parent = 0
    /\ {i \in 1..Len(nodes') : nodes'[i].parent = result'.root} = {1}

C9_TransformOnOriginalRoot ==
    [][Assembled =>
        /\ OuterGroupWrapsRoot
        /\ nodes'[result'.root].scale = NewElement("group").scale
        /\ nodes'[result'.root].position = NewElement("group").position
        /\ nodes'[1] = [nodes[1] EXCEPT !.parent = result'.root,
                                        !.scale = ExpectedTransform.scale,
                                        !.position = ExpectedTransform.position]
        /\ \A i \in 2..Len(nodes) : nodes'[i] = nodes[i]]_vars

\* A call with a viewBox and a viewport has returned a tree with content.
C9_Witness ==
    /\ pc = "done"
    /\ WrapsExpected
    /\ result.root = Len(nodes)
    /\ Len(nodes) >= 3
    /\ nodes[1].scale = ExpectedTransform.scale

\* The statement as the specification has it: the outer group carries the
\* transform and the original root keeps its scale and position.
C9_TransformOnOuterGroup ==
    [][Assembled =>
        /\ OuterGroupWrapsRoot
        /\ nodes'[result'.root].scale = ExpectedTransform.scale
        /\ nodes'[result'.root].position = ExpectedTransform.position
        /\ \A i \in 1..Len(nodes) :
              /\ nodes'[i].scale = nodes[i].scale
              /\ nodes'[i].position = nodes[i].position]_vars

-----------------------------------------------------------------------------
(* What the documents of SpecStyle and SpecText declare, read off their    *)
(* texts: the inline declarations and the presentation attributes of an    *)
(* element under their style names, and the number an attribute writes.    *)

InlineDeclarations(attrs) ==
    IF "style" \notin DOMAIN attrs THEN EmptyDict
    ELSE IF attrs["style"] = FillBlue THEN Attrs1("fill", <<"b", "l", "u", "e">>)
    ELSE IF attrs["style"] = WidthAndFill THEN Attrs2("lineWidth", <<"3">>, "fill", <<"b", "l", "u", "e">>)
    ELSE EmptyDict

PresentationAttributes(attrs) ==
    [P \in {P \in {"fill", "lineWidth"} :
                (IF P = "fill" THEN "fill" ELSE "stroke-width") \in DOMAIN attrs} |->
        attrs[IF P = "fill" THEN "fill" ELSE "stroke-width"]]

AttrNumber(text) ==
    CASE text = <<"3">> -> 3
      [] text = <<"5">> -> 5
      [] text = <<"6">> -> 6
      [] text = <<"8">> -> 8
      [] text = <<"1", "0">> -> 10
      [] text = <<"2", "0">> -> 20
      [] text = <<"4", "0">> -> 40

\* A builder has just returned a node that was added to its parent.
Built == ev.op = "enter" /\ ev.el # 0
ParentOf(i) == nodes[nodes[i].parent]

-----------------------------------------------------------------------------
(* C1: for every supported element and style property P, the resolved      *)
(* value of P is the inline style's when the inline style declares P,      *)
(* else the presentation attribute's when the element carries one, else    *)
(* the parent's.                                                           *)

C1_InlineOverAttributeOverInherited ==
    Built =>
        LET inline == InlineDeclarations(ev.xml.attrs)
            attribute == PresentationAttributes(ev.xml.attrs)
            inherited == ParentOf(ev.el).inheritedStyle
            resolved == ev.styled.inheritedStyle
        IN  \A P \in {"fill", "stroke", "lineWidth"} :
               IF P \in DOMAIN inline
               THEN P \in DOMAIN resolved /\ resolved[P] = inline[P]
               ELSE IF P \in DOMAIN attribute
               THEN P \in DOMAIN resolved /\ resolved[P] = attribute[P]
               ELSE IF P \in DOMAIN inherited
               THEN P \in DOMAIN resolved /\ resolved[P] = inherited[P]
               ELSE P \notin DOMAIN resolved

-----------------------------------------------------------------------------
(* C7: for every node a builder of a supported element returns, every key  *)
(* of the parent group's inherited style record is a key of the node's     *)
(* own record, with the parent's value unless the element sets that key by *)
(* attribute or inline style.                                              *)

C7_ParentKeysKept ==
    (Built /\ ParentOf(ev.el).hasInherited) =>
        LET own == DOMAIN InlineDeclarations(ev.xml.attrs)
                   \cup DOMAIN PresentationAttributes(ev.xml.attrs)
            parentStyle == ParentOf(ev.el).inheritedStyle
            node == nodes[ev.el]
        IN  \A key \in DOMAIN parentStyle :
               /\ node.hasInherited
               /\ key \in DOMAIN node.inheritedStyle
               /\ key \notin own => node.inheritedStyle[key] = parentStyle[key]

-----------------------------------------------------------------------------
(* C10: on entering a tspan with dx = a and dy = b (absent means 0) the    *)
(* text cursor becomes the numbers (x0 + a, y0 + b), x0 and y0 being the   *)
(* tspan's own x and y when given and the cursor's previous x and y        *)
(* otherwise; the text run that follows is positioned at the cursor and    *)
(* advances its x by the run's width.                                      *)

TspanEntered ==
    /\ pc = "walk"
    /\ ev'.n = ev.n + 1
    /\ ev'.op = "enter"
    /\ ev'.name = "tspan"
    /\ IsNum(textX)
    /\ IsNum(textY)

GivenOr(attrs, name, otherwise) ==
    IF name \in DOMAIN attrs THEN Num(AttrNumber(attrs[name])) ELSE otherwise

RunAfterTspan ==
    /\ pc = "walk"
    /\ ev.op = "enter"
    /\ ev.name = "tspan"
    /\ ev'.n = ev.n + 1
    /\ ev'.op = "text"

C10_TspanCursorIsNumeric ==
    [][/\ TspanEntered =>
            /\ textX' = NumAdd(GivenOr(ev'.xml.attrs, "x", textX),
                               GivenOr(ev'.xml.attrs, "dx", Num(0)))
            /\ textY' = NumAdd(GivenOr(ev'.xml.attrs, "y", textY),
                               GivenOr(ev'.xml.attrs, "dy", Num(0)))
       /\ RunAfterTspan =>
            /\ IsNum(textX) /\ IsNum(textY)
            /\ nodes'[ev'.el].position = <<textX, textY>>
            /\ textX' = NumAdd(textX, nodes'[ev'.el].width)]_vars

-----------------------------------------------------------------------------
(* C6: inside one text element, for two sibling tspans without x and y     *)
(* that each hold one text run, the second run's Text node is positioned   *)
(* at the first run's x plus the first run's measured width, at the same   *)
(* y.  The second tspan is taken without dx and dy, which would move it.   *)

IsTspan(i) == i # 0 /\ nodes[i].xml.nodeName = "tspan"
ChildrenOf(i) == {j \in 1..Len(nodes) : nodes[j].parent = i}
Carries(i, names) == names \cap DOMAIN nodes[i].xml.attrs # {}
\* The sibling added just before node i, 0 when i is the first child.
PreviousSibling(i) ==
    LET before == {j \in ChildrenOf(nodes[i].parent) : j < i}
    IN  IF before = {} THEN 0 ELSE CHOOSE j \in before : \A k \in before : k <= j

SecondRunOfTwoTspans ==
    /\ ev.op = "text"
    /\ ev.el # 0
    /\ IsTspan(nodes[ev.el].parent)
    /\ ChildrenOf(nodes[ev.el].parent) = {ev.el}
    /\ ~Carries(nodes[ev.el].parent, {"x", "y", "dx", "dy"})
    /\ nodes[ParentOf(ev.el).parent].xml.nodeName = "text"
    /\ IsTspan(PreviousSibling(nodes[ev.el].parent))
    /\ ~Carries(PreviousSibling(nodes[ev.el].parent), {"x", "y"})
    /\ Cardinality(ChildrenOf(PreviousSibling(nodes[ev.el].parent))) = 1

C6_SecondRunFollowsFirst ==
    SecondRunOfTwoTspans =>
        LET second == nodes[ev.el]
            first == nodes[CHOOSE j \in ChildrenOf(PreviousSibling(nodes[ev.el].parent)) : TRUE]
        IN  /\ second.position[1] = NumAdd(first.position[1], first.width)
            /\ second.position[2] = first.position[2]

-----------------------------------------------------------------------------
(* C11: for a points string of n numeric tokens separated by runs of white *)
(* space and commas, parsePoints returns exactly floor(n/2) points, point  *)
(* k being (token 2k-1, token 2k) counted from 1; an odd trailing token is *)
(* dropped, so no point has a coordinate taken from a missing token.       *)

C11_PointsArePairsOfTokens ==
    (pc = "return" /\ arg.fn = "parsePoints") =>
        /\ Len(ret) = Len(arg.tokens) \div 2
        /\ \A k \in 1..Len(ret) :
              /\ 2 * k <= Len(arg.tokens)
              /\ ret[k] = <<Num(arg.tokens[2 * k - 1]), Num(arg.tokens[2 * k])>>

-----------------------------------------------------------------------------
(* C12: for every linearGradient visited in define mode, building it never *)
(* raises an error and each child element contributes exactly one color    *)
(* stop, in document order: the offset is the percentage or the fraction   *)
(* written, 0 when the offset attribute is empty or absent, and the color  *)
(* is the stop-color written, '#000000' when it is absent.                 *)

OffsetWritten(stop) ==
    CASE "offset" \notin DOMAIN stop.attrs -> Num(0)
      [] stop.attrs["offset"] = <<>> -> Num(0)
      [] stop.attrs["offset"] = <<"5", "0", "%">> -> Frac(1, 2)
      [] stop.attrs["offset"] = <<"0", ".", "5">> -> Frac(1, 2)
      [] stop.attrs["offset"] = <<"1">> -> Num(1)

ColorWritten(stop) ==
    IF "stop-color" \in DOMAIN stop.attrs THEN stop.attrs["stop-color"]
    ELSE <<"#", "0", "0", "0", "0", "0", "0">>

GradientVisited ==
    ev.op \in {"enter", "throw"} /\ ev.name = "lineargradient" /\ ev.define

C12_EveryStopContributes ==
    GradientVisited =>
        /\ ev.op = "enter"
        /\ Len(grads[Len(grads)].colorStops) = Len(ev.xml.children)
        /\ \A k \in 1..Len(ev.xml.children) :
              grads[Len(grads)].colorStops[k] =
                 [offset |-> OffsetWritten(ev.xml.children[k]),
                  color |-> ColorWritten(ev.xml.children[k])]

-----------------------------------------------------------------------------
(* C13: at every step of the walk, a node that lies inside a defs subtree  *)
(* is not built as a scene node and adds nothing to the output tree; the   *)
(* defs registry is written only for elements inside a defs subtree; and   *)
(* a supported element outside every defs subtree, also one that follows   *)
(* a defs element, is built as a scene node.                               *)

Unbuilt == NewElement("none")

C13_DefineModeCoversDefsSubtree ==
    /\ ev.underDefs => (ev.styled = Unbuilt /\ ev.el = 0)
    /\ \A i \in 1..Len(grads) : grads[i].registered => grads[i].underDefs
    /\ (ev.op \in {"enter", "throw"} /\ ~ev.underDefs /\ ev.name \in NodeParserNames)
          => ev.styled # Unbuilt

====
